---- MODULE Spec2Model ----
(***************************************************************************)
(* State-machine model of the mindspace voice pipeline:                    *)
(*   help.js        HTTP handlers and processAudioWithAI                   *)
(*   transcribe.js  transcribeAudio (two versions of the module exist:     *)
(*                  src/transcribe.js and src/unnamed/part_000)            *)
(*   graniteLLM.js  generateTextWithGranite                                *)
(*   pol.js         synthesizeSpeech, clearPreviousAudio,                  *)
(*                  truncateTextForPolly                                   *)
(* Every await of the code is an interleaving point: one action models the *)
(* synchronous code between two awaits.  Strings that the code inspects    *)
(* (storage keys, locators, file names, texts) are sequences of tokens; a  *)
(* token stands for one or more characters, and "/" " " "." "!" "?" are    *)
(* always tokens of their own.                                             *)
(***************************************************************************)
EXTENDS Integers, Sequences, FiniteSets, TLC

\* ------------------------------------------------------------------ bounds
\* Number of requests to the server, and of direct calls of transcribeAudio.
NRuns == 1
\* Number of direct calls of synthesizeSpeech.
NCalls == 2
\* Largest value the millisecond clock (Date.now()) takes.
MaxTime == 1

Procs == 1..NRuns
Callers == 1..NCalls
Ids == Procs \cup Callers

VARIABLES
  now,              \* the value Date.now() returns
  s3,               \* object store: <<bucket, key>> -> body
  jobs,             \* transcription service: job name -> job
  audioDir,         \* local directory public/aud_op: file name -> bytes
  transcribeModule, \* which version of the transcribe module is loaded
  watsonxAI,        \* graniteLLM.js module variable: "client" or "null"
  pc,               \* position of each request / call
  fileName,         \* help.js fileName, transcribeAudio's mp3FileName
  jobName,          \* transcribeAudio's jobName
  status,           \* waitForCompletion's status (last one observed)
  text,             \* getTranscriptText's text
  aiResponse,       \* help.js aiResponse
  err,              \* message of the error a call has thrown
  transcribedText,  \* help.js transcribedText
  result,           \* what processAudioWithAI returned
  resp,             \* the HTTP response sent
  calls,            \* requests each process has sent to external services
  opts,             \* synthesizeSpeech: config.outputFileName
  pollyText,        \* synthesizeSpeech: params.Text
  audioBuffer,      \* synthesizeSpeech: audioBuffer
  s3FileName,       \* synthesizeSpeech: s3FileName
  sres,             \* what synthesizeSpeech returned
  doneBefore,       \* the calls that had returned when this one began
  dirBefore,        \* the local directory as it was when this call began,
                    \* kept while the call waits for the speech service
  textInput,        \* truncateTextForPolly: text
  limit,            \* truncateTextForPolly: maxLength
  processedText,    \* truncateTextForPolly: the value returned
  audOpDir,         \* local directory aud_op next to help.js: file name -> bytes
  filename,         \* POST /delete-audio: req.body.filename
  delResp           \* POST /delete-audio: the HTTP response sent

vars == <<now, s3, jobs, audioDir, transcribeModule, watsonxAI, pc, fileName,
          jobName, status, text, transcribedText, aiResponse, err, result, resp,
          calls, opts, pollyText, audioBuffer, s3FileName, sres, doneBefore,
          dirBefore, textInput, limit, processedText, audOpDir, filename,
          delResp>>

worldVars == <<now, s3, jobs, audioDir, transcribeModule, watsonxAI>>
pipeVars == <<transcribedText, aiResponse, result, resp>>
synthVars == <<opts, pollyText, audioBuffer, s3FileName, sres, doneBefore, dirBefore>>
transVars == <<fileName, jobName, status, text>>
truncVars == <<textInput, limit, processedText>>
deleteVars == <<audOpDir, filename, delResp>>

\* ----------------------------------------------------------------- values
Undefined == <<"undefined">>
NoError == "none"
\* No value yet in result / sres / resp.
NoResult ==
  [set |-> FALSE, success |-> FALSE, error |-> NoError, step |-> "none",
   transcribedText |-> Undefined, aiResponse |-> Undefined, audioFile |-> Undefined]
NoSynthResult ==
  [set |-> FALSE, success |-> FALSE, error |-> NoError, localFileName |-> Undefined,
   relativePath |-> Undefined, s3FileName |-> Undefined]
NoDeleteResponse == [code |-> 0, success |-> FALSE, message |-> "none"]

NoResponse ==
  [code |-> 0, success |-> FALSE, message |-> "none", fileName |-> Undefined,
   transcribedText |-> Undefined, aiResponse |-> Undefined, audioFile |-> Undefined]

\* ------------------------------------------------------- string helpers
\* Mutant of LastIndexOf: the position of the first occurrence.
RECURSIVE FirstIndexOf(_, _)
FirstIndexOf(s, c) ==
  IF Len(s) = 0 THEN -1
  ELSE IF s[1] = c THEN 0
  ELSE LET rest == FirstIndexOf(Tail(s), c) IN IF rest = -1 THEN -1 ELSE rest + 1

\* String.prototype.lastIndexOf for a one-character needle, 0-based, -1 when absent.
RECURSIVE LastIndexOf(_, _)
LastIndexOf(s, c) ==
  IF Len(s) = 0 THEN -1
  ELSE IF s[Len(s)] = c THEN Len(s) - 1
  ELSE LastIndexOf(SubSeq(s, 1, Len(s) - 1), c)

\* String.prototype.substring(0, n) for 0 <= n.
Substring0(s, n) == SubSeq(s, 1, IF n < Len(s) THEN n ELSE Len(s))

\* String.prototype.endsWith for a one-token suffix.
EndsWith(s, suffix) == Len(s) > 0 /\ s[Len(s)] = suffix

\* String.prototype.trim: whitespace removed at both ends.
RECURSIVE TrimLeft(_)
TrimLeft(s) == IF Len(s) > 0 /\ s[1] = " " THEN TrimLeft(Tail(s)) ELSE s
RECURSIVE TrimRight(_)
TrimRight(s) ==
  IF Len(s) > 0 /\ s[Len(s)] = " " THEN TrimRight(SubSeq(s, 1, Len(s) - 1)) ELSE s
Trim(s) == TrimRight(TrimLeft(s))

\* Array.prototype.join("\n") over the transcript segments.
RECURSIVE JoinNl(_)
JoinNl(segs) ==
  IF Len(segs) = 0 THEN <<>>
  ELSE IF Len(segs) = 1 THEN segs[1]
  ELSE segs[1] \o <<"\n">> \o JoinNl(Tail(segs))

\* ----------------------------------------------------------- object store
Put(store, bucket, key, body) ==
  [k \in DOMAIN store \cup {<<bucket, key>>} |->
     IF k = <<bucket, key>> THEN body ELSE store[k]]

Exists(store, bucket, key) == <<bucket, key>> \in DOMAIN store

\* ------------------------------------------------- transcribe.js helpers
TranscribeModules == {"transcribe.js", "part_000"}

\* const bucketName
bucketName == IF transcribeModule = "transcribe.js" THEN "mint-bucket1" ELSE "mint-in"

\* `s3://${bucketName}/${audioFile}`
MediaFileUri(audioFile) == <<"s3:", "/", "/", bucketName, "/">> \o audioFile

\* /^s3:\/\/[^\/]+\/.+/.test(s3Uri): "s3://", one or more non-slash
\* characters, a slash, and at least one more character.
ValidS3Uri(uri) ==
  /\ Len(uri) >= 3
  /\ uri[1] = "s3:" /\ uri[2] = "/" /\ uri[3] = "/"
  /\ \E i \in 4..Len(uri) :
       /\ \A k \in 4..i : uri[k] # "/"
       /\ i + 2 <= Len(uri)
       /\ uri[i + 1] = "/"

\* `MyTranscriptionJob-${Date.now()}`
JobNameAt(t) == <<"MyTranscriptionJob-", ToString(t)>>
JsonKey(job) == job \o <<".json">>
TextKey(job) == job \o <<".txt">>

\* Mutant of PollOutcome: every status but FAILED ends the wait.
PollOutcomeReturnsUnlessFailed(st) ==
  IF st = "FAILED" THEN "throw" ELSE "return"

\* Mutant of PollOutcome: the wait gives up on a job that is still running.
PollOutcomeGivesUp(st) ==
  IF st = "COMPLETED" THEN "return"
  ELSE IF st = "FAILED" \/ st = "IN_PROGRESS" THEN "throw"
  ELSE "again"

\* The branch waitForCompletion takes on the status a poll observed.
PollOutcome(st) ==
  IF st = "COMPLETED" THEN "return"
  ELSE IF st = "FAILED" THEN "throw"
  ELSE "again"

\* JSON.parse(jsonData) and json.results.transcripts.map(t => t.transcript).join("\n")
ParseOk(body) == body.type = "transcript"
\* A segment without a transcript field maps to undefined, which join takes
\* as the empty string.
SegmentText(seg) == IF seg = Undefined THEN <<>> ELSE seg
ParseText(body) == JoinNl([i \in DOMAIN body.data |-> SegmentText(body.data[i])])

\* Bodies of stored objects.
TranscriptDoc(segs) == [type |-> "transcript", data |-> segs]
OtherJson == [type |-> "otherjson", data |-> <<>>]
NotJson == [type |-> "notjson", data |-> <<>>]
TextBody(t) == [type |-> "text", data |-> t]
AudioBody(b) == [type |-> "audio", data |-> b]

\* Result documents the transcription service may write for a completed job.
ResultDocs ==
  { TranscriptDoc(<< <<"hi">>, <<"yo">> >>), TranscriptDoc(<< <<>> >>),
    OtherJson, NotJson }

\* A result document that parses and has the transcripts list, but whose first
\* segment is an object without a transcript field.
SegmentWithoutText == TranscriptDoc(<< Undefined, <<"yo">> >>)

\* Names a caller may pass to transcribeAudio.
AudioFiles == { <<>>, <<"a", ".mp3">> }

\* --------------------------------------------------------------- helpers
Goto(p, label) == pc' = [pc EXCEPT ![p] = label]
Called(p, service) == calls' = [calls EXCEPT ![p] = @ \cup {service}]
\* A rejected promise inside transcribeAudio: its catch logs and rethrows.
Throw(p, msg) == Goto(p, "t_thrown") /\ err' = [err EXCEPT ![p] = msg]

\* ------------------------------------------------------------ environment
\* Date.now() advances.
Tick ==
  /\ now < MaxTime
  /\ now' = now + 1
  /\ UNCHANGED <<s3, jobs, audioDir, transcribeModule, watsonxAI, pc, err, calls>>
  /\ UNCHANGED <<transVars, pipeVars, synthVars>>
  /\ UNCHANGED <<truncVars, deleteVars>>

\* The transcription service takes a queued job up.
JobRuns(j) ==
  /\ j \in DOMAIN jobs
  /\ jobs[j].status = "QUEUED"
  /\ jobs' = [jobs EXCEPT ![j].status = "IN_PROGRESS"]
  /\ UNCHANGED <<now, s3, audioDir, transcribeModule, watsonxAI, pc, err, calls>>
  /\ UNCHANGED <<transVars, pipeVars, synthVars>>
  /\ UNCHANGED <<truncVars, deleteVars>>

\* The transcription service ends a job: FAILED, or COMPLETED with the result
\* document written to OutputBucketName as <job>.json (a document that is
\* missing or is not a transcript models a result that cannot be read).
JobFinish(j) ==
  /\ j \in DOMAIN jobs
  /\ jobs[j].status \in {"QUEUED", "IN_PROGRESS"}
  /\ \/ /\ jobs' = [jobs EXCEPT ![j].status = "FAILED"]
        /\ UNCHANGED s3
     \/ /\ jobs' = [jobs EXCEPT ![j].status = "COMPLETED"]
        /\ \/ \E d \in ResultDocs : s3' = Put(s3, jobs[j].out, JsonKey(j), d)
           \/ UNCHANGED s3
  /\ UNCHANGED <<now, audioDir, transcribeModule, watsonxAI, pc, err, calls>>
  /\ UNCHANGED <<transVars, pipeVars, synthVars>>
  /\ UNCHANGED <<truncVars, deleteVars>>

\* The transcription service ends a job COMPLETED and the result document
\* found under <job>.json has a segment without its text.
JobFinishSegmentWithoutText(j) ==
  /\ j \in DOMAIN jobs
  /\ jobs[j].status \in {"QUEUED", "IN_PROGRESS"}
  /\ jobs' = [jobs EXCEPT ![j].status = "COMPLETED"]
  /\ s3' = Put(s3, jobs[j].out, JsonKey(j), SegmentWithoutText)
  /\ UNCHANGED <<now, audioDir, transcribeModule, watsonxAI, pc, err, calls>>
  /\ UNCHANGED <<transVars, pipeVars, synthVars>>
  /\ UNCHANGED <<truncVars, deleteVars>>

\* --------------------------------------------------------- transcribeAudio
\* transcribeAudio up to the first await of startTranscription.
TranscribeBegin(p) ==
  /\ pc[p] = "t_begin"
  /\ jobName' = [jobName EXCEPT ![p] = JobNameAt(now)]
  /\ IF transcribeModule = "part_000"
     THEN IF ValidS3Uri(MediaFileUri(fileName[p]))
          THEN Goto(p, "t_head") /\ UNCHANGED err
          ELSE Throw(p, "Invalid S3 URI constructed for Transcribe")
     ELSE Goto(p, "t_start") /\ UNCHANGED err
  /\ UNCHANGED <<worldVars, fileName, status, text, calls>>
  /\ UNCHANGED <<pipeVars, synthVars>>
  /\ UNCHANGED <<truncVars, deleteVars>>

\* part_000 only: await s3Client.send(headCmd).
HeadObject(p) ==
  /\ pc[p] = "t_head"
  /\ Called(p, "HeadObject")
  /\ \E ok \in BOOLEAN :
       /\ ok => Exists(s3, bucketName, fileName[p])
       /\ IF ok THEN Goto(p, "t_start") /\ UNCHANGED err
          ELSE Throw(p, "S3 object not found or inaccessible")
  /\ UNCHANGED <<worldVars, transVars, pipeVars, synthVars>>
  /\ UNCHANGED <<truncVars, deleteVars>>

\* await transcribeClient.send(new StartTranscriptionJobCommand(params)); the
\* service refuses a job name it already holds, and may refuse any request.
StartJob(p) ==
  /\ pc[p] = "t_start"
  /\ Called(p, "StartTranscriptionJob")
  /\ \E accepted \in BOOLEAN :
       /\ accepted => jobName[p] \notin DOMAIN jobs
       /\ IF accepted
          THEN /\ jobs' = [j \in DOMAIN jobs \cup {jobName[p]} |->
                             IF j = jobName[p]
                             THEN [status |-> "QUEUED",
                                   media |-> MediaFileUri(fileName[p]),
                                   out |-> bucketName,
                                   by |-> p]
                             ELSE jobs[j]]
               /\ Goto(p, "t_poll") /\ UNCHANGED err
          ELSE /\ UNCHANGED jobs
               /\ Throw(p, "StartTranscriptionJob was rejected")
  /\ UNCHANGED <<now, s3, audioDir, transcribeModule, watsonxAI>>
  /\ UNCHANGED <<transVars, pipeVars, synthVars>>
  /\ UNCHANGED <<truncVars, deleteVars>>

\* One iteration of waitForCompletion's loop: the status request, then the
\* branch on the status it returned.
Poll(p) ==
  /\ pc[p] = "t_poll"
  /\ Called(p, "GetTranscriptionJob")
  /\ \/ /\ Throw(p, "GetTranscriptionJob request failed")
        /\ UNCHANGED status
     \/ LET st == jobs[jobName[p]].status IN
        /\ status' = [status EXCEPT ![p] = st]
        /\ CASE PollOutcome(st) = "return" -> Goto(p, "t_fetch") /\ UNCHANGED err
             [] PollOutcome(st) = "throw" -> Throw(p, "Transcription job failed.")
             [] OTHER -> Goto(p, "t_sleep") /\ UNCHANGED err
  /\ UNCHANGED <<worldVars, fileName, jobName, text, pipeVars, synthVars>>
  /\ UNCHANGED <<truncVars, deleteVars>>

\* await new Promise(resolve => setTimeout(resolve, 100))
Sleep(p) ==
  /\ pc[p] = "t_sleep"
  /\ Goto(p, "t_poll")
  /\ UNCHANGED <<worldVars, transVars, pipeVars, synthVars, err, calls>>
  /\ UNCHANGED <<truncVars, deleteVars>>

\* getTranscriptText: fetch <job>.json, parse it, join the segments.
FetchTranscript(p) ==
  /\ pc[p] = "t_fetch"
  /\ Called(p, "GetObject")
  /\ IF ~Exists(s3, bucketName, JsonKey(jobName[p]))
     THEN Throw(p, "The specified key does not exist.") /\ UNCHANGED text
     ELSE LET body == s3[<<bucketName, JsonKey(jobName[p])>>] IN
          IF ParseOk(body)
          THEN /\ text' = [text EXCEPT ![p] = ParseText(body)]
               /\ Goto(p, "t_put") /\ UNCHANGED err
          ELSE Throw(p, "transcript document could not be parsed") /\ UNCHANGED text
  /\ UNCHANGED <<worldVars, fileName, jobName, status, pipeVars, synthVars>>
  /\ UNCHANGED <<truncVars, deleteVars>>

\* Mutant of PutTranscriptText: the text is returned without being stored.
PutTranscriptTextUnsaved(p) ==
  /\ pc[p] = "t_put"
  /\ Called(p, "PutObject")
  /\ Goto(p, "t_ret")
  /\ UNCHANGED <<worldVars, transVars, pipeVars, synthVars, err>>
  /\ UNCHANGED <<truncVars, deleteVars>>

\* getTranscriptText: persist the text as <job>.txt and return it.
PutTranscriptText(p) ==
  /\ pc[p] = "t_put"
  /\ Called(p, "PutObject")
  /\ \/ /\ s3' = Put(s3, bucketName, TextKey(jobName[p]), TextBody(text[p]))
        /\ Goto(p, "t_ret") /\ UNCHANGED err
     \/ /\ UNCHANGED s3
        /\ Throw(p, "PutObject request failed")
  /\ UNCHANGED <<now, jobs, audioDir, transcribeModule, watsonxAI>>
  /\ UNCHANGED <<transVars, pipeVars, synthVars>>
  /\ UNCHANGED <<truncVars, deleteVars>>

\* A direct call transcribeAudio(name).
CallTranscribeAudio(p) ==
  /\ pc[p] = "idle"
  /\ \E name \in AudioFiles : fileName' = [fileName EXCEPT ![p] = name]
  /\ Goto(p, "t_begin")
  /\ UNCHANGED <<worldVars, jobName, status, text, pipeVars, synthVars, err, calls>>
  /\ UNCHANGED <<truncVars, deleteVars>>

TranscribeSteps(p) ==
  \/ TranscribeBegin(p)
  \/ HeadObject(p)
  \/ StartJob(p)
  \/ Poll(p)
  \/ Sleep(p)
  \/ FetchTranscript(p)
  \/ PutTranscriptText(p)

\* ------------------------------------------------------------------- Init
\* No call of truncateTextForPolly is under observation.
NoTruncation ==
  /\ textInput = <<>>
  /\ limit = 0
  /\ processedText = Undefined

\* No request to POST /delete-audio has been received, and the directory
\* aud_op next to help.js, which no code of the program writes, is empty.
NoDeletion ==
  /\ audOpDir = <<>>
  /\ filename = Undefined
  /\ delResp = NoDeleteResponse

InitProcs ==
  /\ pc = [p \in Ids |-> "idle"]
  /\ fileName = [p \in Ids |-> Undefined]
  /\ jobName = [p \in Ids |-> Undefined]
  /\ status = [p \in Ids |-> "none"]
  /\ text = [p \in Ids |-> Undefined]
  /\ transcribedText = [p \in Ids |-> Undefined]
  /\ aiResponse = [p \in Ids |-> Undefined]
  /\ err = [p \in Ids |-> NoError]
  /\ result = [p \in Ids |-> NoResult]
  /\ resp = [p \in Ids |-> NoResponse]
  /\ calls = [p \in Ids |-> {}]
  /\ opts = [p \in Ids |-> Undefined]
  /\ pollyText = [p \in Ids |-> Undefined]
  /\ audioBuffer = [p \in Ids |-> Undefined]
  /\ s3FileName = [p \in Ids |-> Undefined]
  /\ sres = [p \in Ids |-> NoSynthResult]
  /\ doneBefore = [p \in Ids |-> {}]
  /\ dirBefore = [p \in Ids |-> <<>>]

\* Direct calls of transcribeAudio, the audio object present or not.
TranscribeInit ==
  /\ now = 0
  /\ s3 \in { <<>>, Put(<<>>, "mint-in", <<"a", ".mp3">>, AudioBody(<<"voice">>)) }
  /\ jobs = <<>>
  /\ audioDir = <<>>
  /\ transcribeModule \in TranscribeModules
  /\ watsonxAI = "client"
  /\ InitProcs
  /\ NoTruncation
  /\ NoDeletion

TranscribeNext ==
  \/ Tick
  \/ \E j \in DOMAIN jobs : JobRuns(j)
  \/ \E j \in DOMAIN jobs : JobFinish(j)
  \/ \E p \in Procs : CallTranscribeAudio(p)
  \/ \E p \in Procs : TranscribeSteps(p)

TranscribeSpec == TranscribeInit /\ [][TranscribeNext]_vars

\* ------------------------------------------------------------ graniteLLM.js
\* Shapes of the generation service's response.
GenResponses ==
  { [shape |-> "results", text |-> <<" ", "fine", " ">>],
    [shape |-> "generations", text |-> <<>>],
    [shape |-> "none", text |-> <<>>] }

\* The value generateTextWithGranite returns for a response.
GenResult(r) ==
  IF r.shape = "results" THEN Trim(r.text)
  ELSE IF r.shape = "generations" THEN Trim(r.text)
  ELSE <<"No result field in response">>

\* The catch of generateTextWithGranite rethrows every error wrapped.
GraniteError(msg) == "Watsonx Granite LLM error: " \o msg

\* ------------------------------------------------------------------ pol.js
\* module.exports after pol.js has run: line 162 assigns { synthesizeSpeech },
\* line 242 then assigns { generateTextWithGranite }; the last one stands.
PolExports == {"generateTextWithGranite"}

\* defaultOptions.outputFileName
DefaultOutputFileName == <<"current_audio", ".mp3">>

\* truncateTextForPolly's default maxLength
PollyMaxLength == 2500

\* Mutant of Ellipsis: the one-character marker.
EllipsisOneCharacter == <<"...">>

\* The marker '...' appended to a text that was cut: three characters.
Ellipsis == <<".", ".", ".">>

\* Mutant of Max3: the position of the last '.' alone.
Max3First(a, b, c) == a

\* Math.max of the three lastIndexOf results.
Max3(a, b, c) ==
  IF a >= b /\ a >= c THEN a ELSE IF b >= c THEN b ELSE c

\* Mutant of truncateTextForPolly: every text is marked as cut.
truncateTextAlwaysMarked(txt, maxLength) == Substring0(txt, maxLength) \o Ellipsis

\* Mutant of truncateTextForPolly: the text is returned whatever its length.
truncateTextUncut(txt, maxLength) == txt

\* truncateTextForPolly(text, maxLength); lastSentenceEnd > maxLength * 0.7 is
\* compared in tenths.  Lengths count tokens: where the length decides, the
\* text is given one character per token.
truncateTextForPolly(txt, maxLength) ==
  IF Len(txt) <= maxLength THEN txt
  ELSE LET truncated == Substring0(txt, maxLength)
           lastSentenceEnd == Max3(LastIndexOf(truncated, "."),
                                   LastIndexOf(truncated, "!"),
                                   LastIndexOf(truncated, "?"))
           lastSpace == LastIndexOf(truncated, " ")
       IN IF 10 * lastSentenceEnd > 7 * maxLength
          THEN Substring0(truncated, lastSentenceEnd + 1)
          ELSE IF lastSpace > 0
          THEN Substring0(truncated, lastSpace) \o Ellipsis
          ELSE truncated \o Ellipsis

\* The .mp3 files of a directory: file.endsWith('.mp3').
Mp3Files(dir) == { f \in DOMAIN dir : EndsWith(f, ".mp3") }

Remove(dir, names) == [f \in DOMAIN dir \ names |-> dir[f]]

\* clearPreviousAudio(): every .mp3 file is unlinked; when readdirSync or an
\* unlinkSync throws, the catch logs it and the files not yet unlinked stay
\* (the order of readdirSync is the file system's).
ClearOutcomes(dir) == { Remove(dir, gone) : gone \in SUBSET Mp3Files(dir) }

\* Mutant of WriteFile: an existing file is left as it is (flag 'wx').
WriteFileKeepsExisting(dir, name, bytes) ==
  [f \in DOMAIN dir \cup {name} |-> IF f \in DOMAIN dir THEN dir[f] ELSE bytes]

\* fs.writeFileSync(localFilePath, audioBuffer)
WriteFile(dir, name, bytes) ==
  [f \in DOMAIN dir \cup {name} |-> IF f = name THEN bytes ELSE dir[f]]

\* `polly-output-${Date.now()}.mp3`
PollyKeyAt(t) == <<"polly-output-", ToString(t), ".mp3">>

\* `public/aud_op/${config.outputFileName}`
RelativePath(name) == <<"public", "/", "aud_op", "/">> \o name

\* The objects synthesizeSpeech returns.
SynthFailure(msg) == [NoSynthResult EXCEPT !.set = TRUE, !.error = msg]
SynthSuccess(name, key) ==
  [set |-> TRUE, success |-> TRUE, error |-> NoError, localFileName |-> name,
   relativePath |-> RelativePath(name), s3FileName |-> key]

\* What the speech service may answer, and the arguments of direct calls.
AudioBytes == { <<"pcm1">>, <<"pcm2">> }
SynthTexts == { <<"Take", " ", "a", " ", "breath", ".">> }
OutputFileNames == { DefaultOutputFileName, <<"custom-audio", ".mp3">> }

SynthReturn(p, r) == sres' = [sres EXCEPT ![p] = r] /\ Goto(p, "s_ret")

\* synthesizeSpeech(txt, { outputFileName: name }) up to await polly.send(command).
SynthBegin(p, txt, name) ==
  /\ opts' = [opts EXCEPT ![p] = name]
  /\ pollyText' = [pollyText EXCEPT ![p] = truncateTextForPolly(txt, PollyMaxLength)]
  /\ audioDir' \in ClearOutcomes(audioDir)
  /\ doneBefore' = [doneBefore EXCEPT ![p] = { q \in Ids : pc[q] = "s_ret" }]
  /\ dirBefore' = [dirBefore EXCEPT ![p] = audioDir]
  /\ Goto(p, "s_polly")

\* A direct call of synthesizeSpeech.
CallSynthesizeSpeech(p) ==
  /\ pc[p] = "idle"
  /\ \E txt \in SynthTexts, name \in OutputFileNames : SynthBegin(p, txt, name)
  /\ UNCHANGED <<now, s3, jobs, transcribeModule, watsonxAI>>
  /\ UNCHANGED <<transVars, pipeVars, err, calls, audioBuffer, s3FileName, sres>>
  /\ UNCHANGED <<truncVars, deleteVars>>

\* polly.send resolves and the audio stream is read; then the local write and
\* the code up to await s3.send(new PutObjectCommand(uploadParams)).
PollyDone(p) ==
  /\ pc[p] = "s_polly"
  /\ Called(p, "SynthesizeSpeech")
  /\ \/ /\ SynthReturn(p, SynthFailure("SynthesizeSpeech request failed"))
        /\ UNCHANGED <<audioDir, audioBuffer, s3FileName>>
     \/ \E bytes \in AudioBytes :
          /\ audioBuffer' = [audioBuffer EXCEPT ![p] = bytes]
          /\ \/ /\ audioDir' = WriteFile(audioDir, opts[p], bytes)
                /\ s3FileName' = [s3FileName EXCEPT ![p] = PollyKeyAt(now)]
                /\ Goto(p, "s_put")
                /\ UNCHANGED sres
             \/ /\ SynthReturn(p, SynthFailure("writeFileSync failed"))
                /\ UNCHANGED <<audioDir, s3FileName>>
  /\ UNCHANGED <<now, s3, jobs, transcribeModule, watsonxAI>>
  /\ dirBefore' = [dirBefore EXCEPT ![p] = <<>>]
  /\ UNCHANGED <<transVars, pipeVars, err, opts, pollyText, doneBefore>>
  /\ UNCHANGED <<truncVars, deleteVars>>

\* Mutant of PutAudio: a failed upload removes the local file again.
PutAudioRollsBack(p) ==
  /\ pc[p] = "s_put"
  /\ Called(p, "PutAudio")
  /\ \/ /\ s3' = Put(s3, "mint-out", s3FileName[p], AudioBody(audioBuffer[p]))
        /\ SynthReturn(p, SynthSuccess(opts[p], s3FileName[p]))
        /\ UNCHANGED audioDir
     \/ /\ UNCHANGED s3
        /\ audioDir' = Remove(audioDir, {opts[p]})
        /\ SynthReturn(p, SynthFailure("PutObject request failed"))
  /\ UNCHANGED <<now, jobs, transcribeModule, watsonxAI>>
  /\ UNCHANGED <<transVars, pipeVars, err>>
  /\ UNCHANGED <<opts, pollyText, audioBuffer, s3FileName, doneBefore, dirBefore>>
  /\ UNCHANGED <<truncVars, deleteVars>>

\* await s3.send(new PutObjectCommand(uploadParams)) into bucket mint-out.
PutAudio(p) ==
  /\ pc[p] = "s_put"
  /\ Called(p, "PutAudio")
  /\ \/ /\ s3' = Put(s3, "mint-out", s3FileName[p], AudioBody(audioBuffer[p]))
        /\ SynthReturn(p, SynthSuccess(opts[p], s3FileName[p]))
     \/ /\ UNCHANGED s3
        /\ SynthReturn(p, SynthFailure("PutObject request failed"))
  /\ UNCHANGED <<now, jobs, audioDir, transcribeModule, watsonxAI>>
  /\ UNCHANGED <<transVars, pipeVars, err>>
  /\ UNCHANGED <<opts, pollyText, audioBuffer, s3FileName, doneBefore, dirBefore>>
  /\ UNCHANGED <<truncVars, deleteVars>>

SynthSteps(p) ==
  \/ PollyDone(p)
  \/ PutAudio(p)

\* ----------------------------------------------------------------- help.js
\* const { synthesizeSpeech } = require("./pol.js")
SynthesizeSpeechBound == "synthesizeSpeech" \in PolExports

\* `recording-${timestamp}.mp3`
RecordingName(t) == <<"recording-", ToString(t), ".mp3">>

\* The object processAudioWithAI returns from its catch block.
PipelineFailure(msg) ==
  [set |-> TRUE, success |-> FALSE, error |-> msg, step |-> "AI Pipeline",
   transcribedText |-> Undefined, aiResponse |-> Undefined, audioFile |-> Undefined]

\* The object processAudioWithAI returns when speechResult.success holds.
PipelineSuccess(t, a, f) ==
  [set |-> TRUE, success |-> TRUE, error |-> NoError, step |-> "none",
   transcribedText |-> t, aiResponse |-> a, audioFile |-> f]

Return(p, r) == result' = [result EXCEPT ![p] = r] /\ Goto(p, "p_ret")

\* POST /upload-to-s3 up to await s3.send(command).
Receive(p) ==
  /\ pc[p] = "idle"
  /\ \E hasFile \in BOOLEAN :
       IF hasFile
       THEN /\ fileName' = [fileName EXCEPT ![p] = RecordingName(now)]
            /\ Goto(p, "h_upload")
            /\ UNCHANGED resp
       ELSE /\ resp' = [resp EXCEPT ![p] =
                          [NoResponse EXCEPT !.code = 400,
                                             !.message = "No audio file received"]]
            /\ Goto(p, "h_done")
            /\ UNCHANGED fileName
  /\ UNCHANGED <<worldVars, jobName, status, text, err, calls, synthVars>>
  /\ UNCHANGED <<transcribedText, aiResponse, result>>
  /\ UNCHANGED <<truncVars, deleteVars>>

\* Mutant of Upload: the pipeline is started although the upload failed.
UploadFailureGoesOn(p) ==
  /\ pc[p] = "h_upload"
  /\ Called(p, "UploadAudio")
  /\ \/ s3' = Put(s3, "mint-in", fileName[p], AudioBody(<<"voice">>))
     \/ UNCHANGED s3
  /\ Goto(p, "h_delay")
  /\ UNCHANGED <<now, jobs, audioDir, transcribeModule, watsonxAI>>
  /\ UNCHANGED <<transVars, err, synthVars, pipeVars>>
  /\ UNCHANGED <<truncVars, deleteVars>>

\* await s3.send(command): the upload of the audio to bucket mint-in.
Upload(p) ==
  /\ pc[p] = "h_upload"
  /\ Called(p, "UploadAudio")
  /\ \/ /\ s3' = Put(s3, "mint-in", fileName[p], AudioBody(<<"voice">>))
        /\ Goto(p, "h_delay")
        /\ UNCHANGED resp
     \/ /\ UNCHANGED s3
        /\ resp' = [resp EXCEPT ![p] =
                      [NoResponse EXCEPT !.code = 500, !.message = "Upload failed"]]
        /\ Goto(p, "h_done")
  /\ UNCHANGED <<now, jobs, audioDir, transcribeModule, watsonxAI>>
  /\ UNCHANGED <<transVars, err, synthVars, transcribedText, aiResponse, result>>
  /\ UNCHANGED <<truncVars, deleteVars>>

\* The 5000 ms timer fires: processAudioWithAI(fileName) calls transcribeAudio.
StartPipeline(p) ==
  /\ pc[p] = "h_delay"
  /\ Goto(p, "t_begin")
  /\ UNCHANGED <<worldVars, transVars, pipeVars, synthVars, err, calls>>
  /\ UNCHANGED <<truncVars, deleteVars>>

\* Mutant of TranscribeThrown: a failed transcription is started over.
TranscribeThrownRetries(p) ==
  /\ pc[p] = "t_thrown"
  /\ Goto(p, "t_begin")
  /\ UNCHANGED <<worldVars, transVars, pipeVars, synthVars, err, calls>>
  /\ UNCHANGED <<truncVars, deleteVars>>

\* Mutant of TranscribeThrown: the error is swallowed and the run goes on to
\* the generation stage.
TranscribeThrownGoesOn(p) ==
  /\ pc[p] = "t_thrown"
  /\ Goto(p, "g_wait")
  /\ Called(p, "generateText")
  /\ UNCHANGED <<worldVars, transVars, pipeVars, synthVars, err>>
  /\ UNCHANGED <<truncVars, deleteVars>>

\* Mutant of TranscribeThrown: the error escapes processAudioWithAI and the
\* handler answers from its inner catch block.
TranscribeThrownEscapes(p) ==
  /\ pc[p] = "t_thrown"
  /\ resp' = [resp EXCEPT ![p] =
       [NoResponse EXCEPT !.code = 500,
                          !.message = "Upload successful but pipeline error: " \o err[p],
                          !.fileName = fileName[p]]]
  /\ Goto(p, "h_done")
  /\ UNCHANGED <<worldVars, transVars, synthVars, err, calls>>
  /\ UNCHANGED <<transcribedText, aiResponse, result>>
  /\ UNCHANGED <<truncVars, deleteVars>>

\* processAudioWithAI: transcribeAudio rejected; the catch block returns.
TranscribeThrown(p) ==
  /\ pc[p] = "t_thrown"
  /\ Return(p, PipelineFailure(err[p]))
  /\ UNCHANGED <<worldVars, transVars, synthVars, err, calls>>
  /\ UNCHANGED <<transcribedText, aiResponse, resp>>
  /\ UNCHANGED <<truncVars, deleteVars>>

\* Mutant of TranscribeReturned: the input text is not validated, an empty
\* transcript is sent to the generation service.
TranscribeReturnedUnvalidated(p) ==
  /\ pc[p] = "t_ret"
  /\ transcribedText' = [transcribedText EXCEPT ![p] = text[p]]
  /\ IF watsonxAI = "null"
     THEN /\ Return(p, PipelineFailure(GraniteError("Watsonx client not initialized.")))
          /\ UNCHANGED calls
     ELSE /\ Goto(p, "g_wait")
          /\ Called(p, "generateText")
          /\ UNCHANGED result
  /\ UNCHANGED <<worldVars, transVars, synthVars, err, aiResponse, resp>>
  /\ UNCHANGED <<truncVars, deleteVars>>

\* processAudioWithAI: transcribeAudio returned; generateTextWithGranite runs
\* up to await watsonxAI.generateText(params).
TranscribeReturned(p) ==
  /\ pc[p] = "t_ret"
  /\ transcribedText' = [transcribedText EXCEPT ![p] = text[p]]
  /\ IF text[p] = <<>>
     THEN /\ Return(p, PipelineFailure(
                 GraniteError("Input text is required and must be a string")))
          /\ UNCHANGED calls
     ELSE IF watsonxAI = "null"
     THEN /\ Return(p, PipelineFailure(GraniteError("Watsonx client not initialized.")))
          /\ UNCHANGED calls
     ELSE /\ Goto(p, "g_wait")
          /\ Called(p, "generateText")
          /\ UNCHANGED result
  /\ UNCHANGED <<worldVars, transVars, synthVars, err, aiResponse, resp>>
  /\ UNCHANGED <<truncVars, deleteVars>>

\* The generation service answers; on a text, processAudioWithAI goes on to
\* call synthesizeSpeech(aiResponse).  The name is bound to
\* require("./pol.js").synthesizeSpeech, which pol.js does not export, so the
\* call throws a TypeError inside the try block.
GenerateDone(p) ==
  /\ pc[p] = "g_wait"
  /\ \/ /\ Return(p, PipelineFailure(GraniteError("generateText request failed")))
        /\ UNCHANGED <<aiResponse, audioDir, opts, pollyText, doneBefore, dirBefore>>
     \/ \E r \in GenResponses :
          /\ aiResponse' = [aiResponse EXCEPT ![p] = GenResult(r)]
          /\ IF SynthesizeSpeechBound
             THEN /\ SynthBegin(p, GenResult(r), DefaultOutputFileName)
                  /\ UNCHANGED result
             ELSE /\ Return(p, PipelineFailure("synthesizeSpeech is not a function"))
                  /\ UNCHANGED <<audioDir, opts, pollyText, doneBefore, dirBefore>>
  /\ UNCHANGED <<now, s3, jobs, transcribeModule, watsonxAI>>
  /\ UNCHANGED <<transVars, err, calls, transcribedText, resp>>
  /\ UNCHANGED <<audioBuffer, s3FileName, sres>>
  /\ UNCHANGED <<truncVars, deleteVars>>

\* processAudioWithAI after await synthesizeSpeech(aiResponse): the result on
\* speechResult.success, the thrown and caught error otherwise.  (No request
\* reaches this point while pol.js does not export synthesizeSpeech.)
SynthReturned(p) ==
  /\ pc[p] = "s_ret"
  /\ IF sres[p].success
     THEN Return(p, PipelineSuccess(transcribedText[p], aiResponse[p],
                                    sres[p].relativePath))
     ELSE Return(p, PipelineFailure("Speech synthesis failed: " \o sres[p].error))
  /\ UNCHANGED <<worldVars, transVars, synthVars, err, calls>>
  /\ UNCHANGED <<transcribedText, aiResponse, resp>>
  /\ UNCHANGED <<truncVars, deleteVars>>

\* Mutant of Respond: a failed run is answered like a missing file.
RespondFailureAs400(p) ==
  /\ pc[p] = "p_ret"
  /\ resp' = [resp EXCEPT ![p] =
       [NoResponse EXCEPT !.code = 400,
                          !.message = "Upload successful but AI pipeline failed: "
                                        \o result[p].error,
                          !.fileName = fileName[p]]]
  /\ Goto(p, "h_done")
  /\ UNCHANGED <<worldVars, transVars, synthVars, err, calls>>
  /\ UNCHANGED <<transcribedText, aiResponse, result>>
  /\ UNCHANGED <<truncVars, deleteVars>>

\* The handler sends the response for pipelineResult.
Respond(p) ==
  /\ pc[p] = "p_ret"
  /\ resp' = [resp EXCEPT ![p] =
       IF result[p].success
       THEN [code |-> 200, success |-> TRUE,
             message |-> "Uploaded and processed successfully",
             fileName |-> fileName[p],
             transcribedText |-> result[p].transcribedText,
             aiResponse |-> result[p].aiResponse,
             audioFile |-> result[p].audioFile]
       ELSE [NoResponse EXCEPT
               !.code = 500,
               !.message = "Upload successful but AI pipeline failed: " \o result[p].error,
               !.fileName = fileName[p]]]
  /\ Goto(p, "h_done")
  /\ UNCHANGED <<worldVars, transVars, synthVars, err, calls>>
  /\ UNCHANGED <<transcribedText, aiResponse, result>>
  /\ UNCHANGED <<truncVars, deleteVars>>

PipelineSteps(p) ==
  \/ Receive(p)
  \/ Upload(p)
  \/ StartPipeline(p)
  \/ TranscribeThrown(p)
  \/ TranscribeReturned(p)
  \/ GenerateDone(p)
  \/ Respond(p)

\* The server: requests to POST /upload-to-s3.
Init ==
  /\ now = 0
  /\ s3 = <<>>
  /\ jobs = <<>>
  /\ audioDir = <<>>
  /\ transcribeModule \in TranscribeModules
  /\ watsonxAI \in {"client", "null"}
  /\ InitProcs
  /\ NoTruncation
  /\ NoDeletion

Next ==
  \/ Tick
  \/ \E j \in DOMAIN jobs : JobRuns(j)
  \/ \E j \in DOMAIN jobs : JobFinish(j)
  \/ \E p \in Procs : PipelineSteps(p)
  \/ \E p \in Procs : TranscribeSteps(p)

Spec == Init /\ [][Next]_vars

\* The server, the result documents with a segment without text included.
DocNext ==
  \/ Tick
  \/ \E j \in DOMAIN jobs : JobRuns(j)
  \/ \E j \in DOMAIN jobs : JobFinish(j)
  \/ \E j \in DOMAIN jobs : JobFinishSegmentWithoutText(j)
  \/ \E p \in Procs : PipelineSteps(p)
  \/ \E p \in Procs : TranscribeSteps(p)

DocSpec == Init /\ [][DocNext]_vars


\* Number of requests the server handles at the same time.
NPair == 2
Pair == 1..NPair

\* The server with NPair requests in flight: each await lets the other
\* request's handler run.
PairNext ==
  \/ Tick
  \/ \E j \in DOMAIN jobs : JobRuns(j)
  \/ \E j \in DOMAIN jobs : JobFinish(j)
  \/ \E p \in Pair : PipelineSteps(p)
  \/ \E p \in Pair : TranscribeSteps(p)

PairSpec == Init /\ [][PairNext]_vars

\* Direct calls of synthesizeSpeech; the directory is empty or holds the
\* audio of an earlier call.
SynthInit ==
  /\ now = 0
  /\ s3 = <<>>
  /\ jobs = <<>>
  /\ audioDir \in { <<>>, WriteFile(<<>>, DefaultOutputFileName, <<"old">>) }
  /\ transcribeModule = "transcribe.js"
  /\ watsonxAI = "client"
  /\ InitProcs
  /\ NoTruncation
  /\ NoDeletion

SynthNext ==
  \/ Tick
  \/ \E p \in Callers : CallSynthesizeSpeech(p)
  \/ \E p \in Callers : SynthSteps(p)

SynthSpec == SynthInit /\ [][SynthNext]_vars


\* ------------------------------------------------------ POST /delete-audio
\* A path below __dirname is a sequence of segments, a segment a sequence of
\* tokens.  SplitAt cuts a sequence of tokens at every token sep.
RECURSIVE SplitAt(_, _)
SplitAt(s, sep) ==
  IF \A i \in DOMAIN s : s[i] # sep THEN <<s>>
  ELSE LET i == CHOOSE k \in DOMAIN s :
                  s[k] = sep /\ \A m \in 1..(k - 1) : s[m] # sep
       IN  <<SubSeq(s, 1, i - 1)>> \o SplitAt(SubSeq(s, i + 1, Len(s)), sep)

Split(s) == SplitAt(s, "/")

ParentSegment == <<".", ".">>

\* path.join normalises the joined path: empty and "." segments are dropped,
\* ".." removes the segment before it.
RECURSIVE Normalize(_, _)
Normalize(stack, segs) ==
  IF segs = <<>> THEN stack
  ELSE LET h == Head(segs) IN
       IF h = <<>> \/ h = <<".">> THEN Normalize(stack, Tail(segs))
       ELSE IF h = ParentSegment /\ stack # <<>> /\ stack[Len(stack)] # ParentSegment
       THEN Normalize(SubSeq(stack, 1, Len(stack) - 1), Tail(segs))
       ELSE Normalize(Append(stack, h), Tail(segs))

\* path.join(__dirname, 'aud_op', name)
AudOpSegments == << <<"aud_op">> >>
\* pol.js audioOutputDir: path.join(__dirname, 'public/aud_op')
AudioOutputSegments == << <<"public">>, <<"aud_op">> >>

DeleteAudioPath(name) == Normalize(AudOpSegments, Split(name))

InDir(path, dir) ==
  /\ Len(path) = Len(dir) + 1
  /\ SubSeq(path, 1, Len(dir)) = dir

\* fs.existsSync(audioPath), for the two directories that can hold files.
ExistsSync(path) ==
  \/ InDir(path, AudOpSegments) /\ path[Len(path)] \in DOMAIN audOpDir
  \/ InDir(path, AudioOutputSegments) /\ path[Len(path)] \in DOMAIN audioDir

\* A filename that is not a string and not falsy: path.join throws a TypeError.
NumberFilename == <<"number 5">>

\* A name that leaves aud_op and enters public/aud_op.
TraversalFilename ==
  <<".", ".", "/", "public", "/", "aud_op", "/">> \o DefaultOutputFileName

\* Values of req.body.filename: absent, empty, the fixed name, a path into
\* pol.js's directory, a number.
Filenames ==
  { Undefined, <<>>, DefaultOutputFileName, TraversalFilename, NumberFilename }

Falsy(f) == f = Undefined \/ f = <<>>

\* POST /delete-audio: the whole handler (it has no await).
DeleteAudio(f) ==
  /\ delResp = NoDeleteResponse
  /\ filename' = f
  /\ IF f = NumberFilename
     THEN /\ delResp' = [code |-> 500, success |-> FALSE,
                         message |-> "The \"path\" argument must be of type string"]
          /\ UNCHANGED <<audOpDir, audioDir>>
     ELSE LET audioPath == DeleteAudioPath(IF Falsy(f) THEN DefaultOutputFileName ELSE f)
              name == audioPath[Len(audioPath)]
          IN  IF ExistsSync(audioPath)
              THEN /\ delResp' = [code |-> 200, success |-> TRUE,
                                  message |-> "Audio file deleted successfully"]
                   /\ IF InDir(audioPath, AudOpSegments)
                      THEN audOpDir' = Remove(audOpDir, {name}) /\ UNCHANGED audioDir
                      ELSE audioDir' = Remove(audioDir, {name}) /\ UNCHANGED audOpDir
              ELSE /\ delResp' = [code |-> 200, success |-> FALSE,
                                  message |-> "Audio file not found"]
                   /\ UNCHANGED <<audOpDir, audioDir>>
  /\ UNCHANGED <<now, s3, jobs, transcribeModule, watsonxAI, pc, err, calls>>
  /\ UNCHANGED <<transVars, pipeVars, synthVars, truncVars>>

\* Direct calls of synthesizeSpeech and one request to POST /delete-audio.
\* The directory aud_op next to help.js is empty, or holds a file that was
\* put there from outside the program.
DeleteInit ==
  /\ now = 0
  /\ s3 = <<>>
  /\ jobs = <<>>
  /\ audioDir \in { <<>>, WriteFile(<<>>, DefaultOutputFileName, <<"old">>) }
  /\ transcribeModule = "transcribe.js"
  /\ watsonxAI = "client"
  /\ InitProcs
  /\ NoTruncation
  /\ audOpDir \in { <<>>, WriteFile(<<>>, DefaultOutputFileName, <<"foreign">>) }
  /\ filename = Undefined
  /\ delResp = NoDeleteResponse

DeleteNext ==
  \/ Tick
  \/ \E p \in Procs : CallSynthesizeSpeech(p)
  \/ \E p \in Procs : SynthSteps(p)
  \/ \E f \in Filenames : DeleteAudio(f)

DeleteSpec == DeleteInit /\ [][DeleteNext]_vars

\* ---------------------------------------------- truncateTextForPolly alone
\* Longest text given to truncateTextForPolly, and longest text in which the
\* three sentence terminators are mixed.
MaxLen == 8
MaxMixedLen == 5

Terminators == {".", "!", "?"}

\* The texts of up to n characters over the characters of A.
TextsOver(A, n) == UNION { [1..k -> A] : k \in 0..n }

\* Texts given to truncateTextForPolly, one character per token: letters,
\* spaces and one kind of terminator, or a short text of any of the characters.
Texts ==
  UNION { TextsOver({"a", " ", t}, MaxLen) : t \in Terminators }
    \cup TextsOver({"a", " "} \cup Terminators, MaxMixedLen)

\* The values given as maxLength.
Limits == 0..MaxLen

TruncInit ==
  /\ now = 0
  /\ s3 = <<>>
  /\ jobs = <<>>
  /\ audioDir = <<>>
  /\ transcribeModule = "transcribe.js"
  /\ watsonxAI = "client"
  /\ InitProcs
  /\ textInput \in Texts
  /\ limit \in Limits
  /\ processedText = Undefined
  /\ NoDeletion

\* const processedText = truncateTextForPolly(textInput, limit)
Truncate ==
  /\ processedText = Undefined
  /\ processedText' = truncateTextForPolly(textInput, limit)
  /\ UNCHANGED <<worldVars, pc, err, calls, transVars, pipeVars, synthVars>>
  /\ UNCHANGED <<textInput, limit>>
  /\ UNCHANGED deleteVars

TruncNext == Truncate

TruncSpec == TruncInit /\ [][TruncNext]_vars

\* ================================================================== claims
\* The job a run polls is the one it submitted.
OwnJob(p) == jobName[p] \in DOMAIN jobs /\ jobs[jobName[p]].by = p

\* The run has sent nothing to the generation or the synthesis service.
NoDownstreamCalls(p) ==
  /\ calls[p] \cap {"generateText", "SynthesizeSpeech", "PutAudio"} = {}
  /\ pollyText[p] = Undefined

\* The messages generateTextWithGranite throws.
GraniteErrors ==
  { GraniteError("Input text is required and must be a string"),
    GraniteError("Watsonx client not initialized."),
    GraniteError("generateText request failed") }

\* transcribeAudio returned its text and generateTextWithGranite threw.
GenerationFailed(p) ==
  /\ result[p].set
  /\ transcribedText[p] # Undefined
  /\ aiResponse[p] = Undefined

\* C1: in every run of processAudioWithAI the stages are invoked in the order
\* transcription, generation, synthesis: generation only after transcription
\* returned its text, synthesis only after generation returned its text, a
\* run whose generation returned goes on to invoke synthesis, and the result
\* is success with transcribedText, aiResponse and audioFile of the three
\* stages when synthesizeSpeech reports success.
C1_StagesInOrderThenSuccess ==
  \A p \in Procs :
    /\ "generateText" \in calls[p] => transcribedText[p] # Undefined
    /\ pollyText[p] # Undefined => aiResponse[p] # Undefined
    /\ (result[p].set /\ aiResponse[p] # Undefined) =>
         /\ pollyText[p] # Undefined
         /\ sres[p].success =>
              result[p] = PipelineSuccess(transcribedText[p], aiResponse[p],
                                          sres[p].relativePath)

SequentialSuccess(a, b) ==
  /\ a # b
  /\ pc[a] = "s_ret" /\ sres[a].success
  /\ pc[b] = "s_ret" /\ sres[b].success
  /\ a \in doneBefore[b]

\* C4: after two sequential successful synthesizeSpeech calls with the default
\* options (and no other call), the directory holds exactly one file, named
\* current_audio.mp3, and its bytes are those of the second call.
C4_SecondCallOwnsSlot ==
  \A a, b \in Callers :
    ( /\ SequentialSuccess(a, b)
      /\ opts[a] = DefaultOutputFileName /\ opts[b] = DefaultOutputFileName
      /\ \A c \in Callers \ {a, b} : pc[c] = "idle" ) =>
      /\ DOMAIN audioDir = {DefaultOutputFileName}
      /\ audioDir[DefaultOutputFileName] = audioBuffer[b]

C4_Witness ==
  \E a, b \in Callers :
    /\ SequentialSuccess(a, b)
    /\ opts[a] = DefaultOutputFileName /\ opts[b] = DefaultOutputFileName
    /\ \A c \in Callers \ {a, b} : pc[c] = "idle"
    /\ audioBuffer[a] # audioBuffer[b]
    /\ audioDir[DefaultOutputFileName] = audioBuffer[b]

\* C5: in every reachable state, whatever the interleaving of synthesizeSpeech
\* calls and their outputFileName, the directory holds at most one .mp3 file.
C5_AtMostOneMp3 == Cardinality(Mp3Files(audioDir)) <= 1

\* C6: two sequential successful synthesizeSpeech calls store their audio under
\* two distinct keys, and the object of the first is not overwritten.
C6_DistinctKeys ==
  \A a, b \in Callers :
    SequentialSuccess(a, b) =>
      /\ s3FileName[a] # s3FileName[b]
      /\ s3[<<"mint-out", s3FileName[a]>>] = AudioBody(audioBuffer[a])

\* C10: a synthesizeSpeech call whose object-store write fails returns
\* { success: false, error } and that step leaves the local directory, with
\* the file the call wrote, as it is.
C10_FailedUploadKeepsLocalFile ==
  [][\A p \in Callers :
       (pc[p] = "s_put" /\ pc'[p] = "s_ret" /\ ~sres'[p].success) =>
         /\ sres'[p].set
         /\ sres'[p].error = "PutObject request failed"
         /\ audioDir' = audioDir]_vars

C10_Witness ==
  \E p \in Callers :
    /\ pc[p] = "s_ret"
    /\ sres[p] = SynthFailure("PutObject request failed")
    /\ opts[p] = DefaultOutputFileName
    /\ opts[p] \in DOMAIN audioDir
    /\ audioDir[opts[p]] = audioBuffer[p]

\* C7: a transcription job is submitted only after the locator was found
\* well-formed and the existence check of the object succeeded; a malformed
\* locator and a failed existence check each end the call with their error
\* and without a job.
C7_SubmitOnlyAfterChecks ==
  \A p \in Procs :
    /\ "StartTranscriptionJob" \in calls[p] =>
         /\ ValidS3Uri(MediaFileUri(fileName[p]))
         /\ "HeadObject" \in calls[p]
         /\ Exists(s3, bucketName, fileName[p])
    /\ err[p] \in {"Invalid S3 URI constructed for Transcribe",
                   "S3 object not found or inaccessible"} =>
         "StartTranscriptionJob" \notin calls[p]

\* C8: waitForCompletion returns only on a poll that observed COMPLETED,
\* throws "Transcription job failed." on the poll that observed FAILED, and
\* sleeps and polls again on any other status; the result document is
\* requested only after COMPLETED was observed.
C8_WaitBranchesOnStatus ==
  \A p \in Procs :
    /\ pc[p] \in {"t_fetch", "t_put", "t_ret"} => status[p] = "COMPLETED"
    /\ "GetObject" \in calls[p] => status[p] = "COMPLETED"
    /\ pc[p] = "t_sleep" => status[p] \notin {"COMPLETED", "FAILED"}
    /\ status[p] = "FAILED" =>
         pc[p] = "t_thrown" /\ err[p] = "Transcription job failed."
    /\ err[p] = "Transcription job failed." => status[p] = "FAILED"

C8_Witness ==
  \E p \in Procs :
    /\ "GetObject" \in calls[p]
    /\ status[p] = "COMPLETED"
    /\ pc[p] = "t_ret"

\* The call is inside waitForCompletion's loop; the job it polls is over.
InWait(p) == pc[p] \in {"t_poll", "t_sleep"}
JobOver(p) ==
  jobName[p] \in DOMAIN jobs /\ jobs[jobName[p]].status \in {"COMPLETED", "FAILED"}
\* The call has polled and is no longer in the loop.
WaitEnded(p) == "GetTranscriptionJob" \in calls[p] /\ ~InWait(p)

\* C9 (as stated, the part a finite run decides): waitForCompletion ends only
\* when the job status is COMPLETED or FAILED.
C9_EndsOnlyOnTerminalStatus ==
  \A p \in Procs : WaitEnded(p) => JobOver(p)

\* C9 (amended): under fair scheduling of the poll loop a wait whose job is
\* COMPLETED or FAILED ends; and a wait ends only when the job is COMPLETED or
\* FAILED or when a status request itself fails (there is no cap on attempts).
C9_WaitEndsIffTerminalOrRequestFails ==
  /\ \A p \in Procs : (InWait(p) /\ JobOver(p)) ~> ~InWait(p)
  /\ [](\A p \in Procs :
          WaitEnded(p) => \/ JobOver(p)
                          \/ err[p] = "GetTranscriptionJob request failed")

C9_Witness ==
  \E p \in Procs :
    /\ WaitEnded(p)
    /\ status[p] = "FAILED"
    /\ jobs[jobName[p]].status = "FAILED"

\* Timers fire and settled promises are resumed: each iteration of a poll
\* loop is eventually run.
TranscribeFairSpec ==
  /\ TranscribeInit
  /\ [][TranscribeNext]_vars
  /\ \A p \in Procs : WF_vars(Poll(p)) /\ WF_vars(Sleep(p))

\* The positions of a run at which its transcription job is not yet submitted,
\* at which the generation service is not yet called, and at which the run is over.
BeforeSubmit == {"idle", "h_upload", "h_delay", "t_begin", "t_head", "t_start"}
BeforeGenerate ==
  BeforeSubmit \cup {"t_poll", "t_sleep", "t_fetch", "t_put", "t_ret", "t_thrown"}
RunOver == {"p_ret", "h_done"}

\* C11: within one pipeline run no stage is retried: once the transcription
\* job is submitted the run never again stands before the submission, once
\* the generation service is called the run never again stands before that
\* call, the speech service is called at most once, and from the first stage
\* failure on (transcribeAudio threw, or the run returned a failure) the run
\* sends no further request except that the rethrown error is returned.
C11_NoStageRetried ==
  /\ [](\A p \in Procs :
          /\ "StartTranscriptionJob" \in calls[p] => pc[p] \notin BeforeSubmit
          /\ "generateText" \in calls[p] => pc[p] \notin BeforeGenerate
          /\ "SynthesizeSpeech" \in calls[p] => pc[p] \in {"s_put", "s_ret"} \cup RunOver
          /\ (result[p].set /\ ~result[p].success) => pc[p] \in RunOver)
  /\ [][\A p \in Procs :
          (err[p] # NoError \/ result[p].set) =>
            /\ calls'[p] = calls[p]
            /\ pc'[p] \in RunOver \cup {pc[p]}]_vars

C11_Witness ==
  \E p \in Procs :
    /\ pc[p] = "h_done"
    /\ err[p] = "Transcription job failed."
    /\ calls[p] = {"UploadAudio", "StartTranscriptionJob", "GetTranscriptionJob"}
    /\ result[p].set /\ ~result[p].success

\* No other synthesizeSpeech call touched the directory during the call of p:
\* every other call is not begun, or had returned when p began.
AloneSinceBegin(p) ==
  \A q \in Callers \ {p} : pc[q] = "idle" \/ q \in doneBefore[p]

\* C12: when the speech-service request of a synthesizeSpeech call fails (and
\* no other call ran meanwhile), the call returns with the local directory as
\* it was before the call: the file stored before is present with its bytes.
C12_FailedSynthesisKeepsDirectory ==
  [][\A p \in Callers :
       ( /\ pc[p] = "s_polly" /\ pc'[p] = "s_ret"
         /\ sres'[p] = SynthFailure("SynthesizeSpeech request failed")
         /\ AloneSinceBegin(p) ) =>
         audioDir' = dirBefore[p]]_vars

\* truncateTextForPolly has returned.
Truncated == processedText # Undefined

\* The result carries the ellipsis marker appended to a cut text.
Marked ==
  /\ Truncated
  /\ Len(textInput) > limit
  /\ Len(processedText) >= 3
  /\ SubSeq(processedText, Len(processedText) - 2, Len(processedText)) = Ellipsis
  /\ SubSeq(processedText, 1, Len(processedText) - 3) =
       SubSeq(textInput, 1, Len(processedText) - 3)

\* C13 (as stated): for every text and every maximum length the result is at
\* most the maximum length long.
C13_ResultWithinLimit ==
  Truncated => Len(processedText) <= limit

\* The first `limit` characters of the text, as the claims describe them.
Window == SubSeq(textInput, 1, IF limit < Len(textInput) THEN limit ELSE Len(textInput))

\* 0-based position of the last character of the window that is in the set
\* cs, or -1 when there is none.
LastIn(cs) ==
  LET at == { i \in 0..(Len(Window) - 1) : Window[i + 1] \in cs }
  IN IF at = {} THEN -1 ELSE CHOOSE i \in at : \A k \in at : k <= i

LastTerminator == LastIn(Terminators)
LastWhitespace == LastIn({" "})

\* The text is longer than the limit.
TooLong == Len(textInput) > limit

\* The last terminator of the window lies past 70% of the limit.
TerminatorQualifies == 10 * LastTerminator > 7 * limit

\* C13 (amended): the result is at most the maximum length long when the text
\* is returned as it is or cut at a sentence terminator, and at most three
\* characters (the ellipsis marker) longer than the maximum length otherwise.
C13_ResultWithinLimitPlusMarker ==
  Truncated =>
    /\ Len(processedText) <= limit + Len(Ellipsis)
    /\ (~TooLong \/ TerminatorQualifies) => Len(processedText) <= limit

C13_Witness ==
  /\ Truncated
  /\ limit > 0
  /\ Marked
  /\ Len(processedText) = limit + 3

\* C14: for a text longer than the limit whose last sentence terminator within
\* the first `limit` characters lies past 70% of the limit (its 0-based
\* position is greater than 0.7 * limit), the result is exactly the prefix of
\* the text up to and including that terminator, and is at most `limit` long.
C14_CutAtLastTerminator ==
  (Truncated /\ TooLong /\ TerminatorQualifies) =>
    /\ processedText = SubSeq(textInput, 1, LastTerminator + 1)
    /\ processedText[Len(processedText)] \in Terminators
    /\ Len(processedText) <= limit

C14_Witness ==
  /\ Truncated /\ TooLong /\ TerminatorQualifies
  /\ Len(processedText) < limit
  /\ \E i \in 1..Len(processedText) - 1 : processedText[i] \in Terminators

\* The window holds no sentence terminator but holds whitespace.
NoTerminatorButWhitespace ==
  TooLong /\ LastTerminator = -1 /\ LastWhitespace >= 0

C16_HardCutWithMarker ==
  ( /\ Truncated /\ TooLong
    /\ \A i \in 1..Len(textInput) : textInput[i] # " "
    /\ ~TerminatorQualifies ) =>
    /\ processedText = SubSeq(textInput, 1, limit) \o <<".", ".", ".">>
    /\ Len(processedText) = limit + 3

C16_Witness ==
  /\ Truncated /\ TooLong
  /\ \A i \in 1..Len(textInput) : textInput[i] # " "
  /\ LastTerminator >= 0 /\ ~TerminatorQualifies
  /\ limit >= 4
  /\ processedText = Window \o Ellipsis

\* C17: for every text shorter than the limit the result is the text itself.
C17_ShortTextUnchanged ==
  (Truncated /\ Len(textInput) < limit) => processedText = textInput

C17_Witness ==
  /\ Truncated
  /\ Len(textInput) = limit - 1
  /\ Len(textInput) >= 3
  /\ \E i, j \in 1..Len(textInput) : textInput[i] = " " /\ textInput[j] \in Terminators
  /\ processedText = textInput

\* The fixed local audio path a successful run reports.
FixedAudioPath == RelativePath(DefaultOutputFileName)

\* No service request of the run has failed and its transcript is not empty:
\* nothing outside the program stands in the way of its success.
Unhindered(p) ==
  /\ err[p] = NoError
  /\ resp[p].message # "Upload failed"
  /\ result[p].error \notin GraniteErrors
  /\ sres[p].error = NoError

\* The state C18 describes: run p has returned success with the fixed local
\* audio path while the file at that path holds the bytes of the other run q,
\* or run q has deleted it.
ServedOthersAudio(p, q) ==
  /\ p # q
  /\ result[p].success
  /\ result[p].audioFile = FixedAudioPath
  /\ audioBuffer[q] # Undefined
  /\ \/ DefaultOutputFileName \notin DOMAIN audioDir
     \/ audioDir[DefaultOutputFileName] = audioBuffer[q]

\* C18: with two pipeline runs in flight, a run that no service failure has
\* hit returns success with the fixed local audio path (the state the claim
\* describes, in which that file holds the other run's audio, has such a run).
C18_UnhinderedRunReturnsFixedPath ==
  \A p \in Pair :
    (result[p].set /\ Unhindered(p)) =>
      /\ result[p].success
      /\ result[p].audioFile = FixedAudioPath

\* No pipeline run of the server returns success, so the state C18 describes
\* is not reached by pipeline runs.
NoRunServesOthersAudio ==
  \A p, q \in Pair : ~result[p].success /\ ~ServedOthersAudio(p, q)

\* The run sent no request to the transcription, generation or speech service.
NoStageCalls(p) ==
  calls[p] \cap {"HeadObject", "StartTranscriptionJob", "GetTranscriptionJob",
                 "GetObject", "PutObject", "generateText", "SynthesizeSpeech",
                 "PutAudio"} = {}

\* The request has been answered.
Answered(p) == resp[p].code # 0

\* C19: when the upload succeeded and a pipeline stage then failed, the
\* response is HTTP 500 with success = false, a message and the uploaded
\* fileName and nothing else; a success response (with transcribedText,
\* aiResponse and audioFile) is sent only for a run whose three stages
\* succeeded; and a run that has returned is answered in one of the two ways.
C19_StageFailureAnswered500 ==
  \A p \in Procs :
    /\ (Answered(p) /\ result[p].set /\ ~result[p].success) =>
         /\ Exists(s3, "mint-in", fileName[p])
         /\ resp[p] = [NoResponse EXCEPT
                         !.code = 500,
                         !.message = "Upload successful but AI pipeline failed: "
                                       \o result[p].error,
                         !.fileName = fileName[p]]
         /\ \E t \in 0..MaxTime : resp[p].fileName = RecordingName(t)
    /\ resp[p].success =>
         /\ result[p].success /\ sres[p].success
         /\ transcribedText[p] # Undefined /\ aiResponse[p] # Undefined
         /\ resp[p].transcribedText = transcribedText[p]
         /\ resp[p].aiResponse = aiResponse[p]
         /\ resp[p].audioFile = sres[p].relativePath
    /\ (pc[p] = "h_done" /\ result[p].set) => Answered(p)

C19_Witness ==
  \E p \in Procs :
    /\ pc[p] = "h_done"
    /\ result[p].error = GraniteError("generateText request failed")
    /\ resp[p].code = 500 /\ ~resp[p].success
    /\ resp[p].fileName = fileName[p]

\* C20 (as stated): a request that fails before a pipeline run is attempted
\* (no audio file, or the upload of the audio fails) is answered with HTTP
\* 400, and no transcription, generation or synthesis call is made for it.
C20_UploadOnlyFailure400 ==
  \A p \in Procs :
    (Answered(p) /\ ~result[p].set) => resp[p].code = 400 /\ NoStageCalls(p)

\* The upload of the run was sent and its object is not in the store.
UploadFailed(p) ==
  "UploadAudio" \in calls[p] /\ ~Exists(s3, "mint-in", fileName[p])

\* C20 (amended): a request without an audio file is answered with HTTP 400
\* "No audio file received" and sends no request at all; a request whose
\* upload of the audio fails is answered with HTTP 500 "Upload failed"; in
\* both cases no pipeline run is attempted and no transcription, generation or
\* synthesis call is made.
C20_UploadOnlyFailure400Or500 ==
  \A p \in Procs :
    /\ UploadFailed(p) =>
         /\ pc[p] = "h_done"
         /\ resp[p].code = 500 /\ resp[p].message = "Upload failed"
         /\ ~result[p].set
         /\ NoStageCalls(p)
    /\ resp[p].code = 400 =>
         /\ pc[p] = "h_done"
         /\ resp[p].message = "No audio file received"
         /\ calls[p] = {}
    /\ (Answered(p) /\ ~result[p].set) =>
         /\ NoStageCalls(p)
         /\ jobName[p] = Undefined
         /\ \/ resp[p].code = 400
            \/ /\ resp[p].code = 500 /\ resp[p].message = "Upload failed"
               /\ calls[p] = {"UploadAudio"}

C20_Witness ==
  \E p \in Procs :
    /\ pc[p] = "h_done"
    /\ calls[p] = {"UploadAudio"}
    /\ resp[p].code = 500 /\ resp[p].message = "Upload failed"
    /\ ~result[p].set


\* ---------------------------------------------------------------------- C21
\* The request to POST /delete-audio is handled in this step, and its body
\* names no file.
DeletesDefault ==
  /\ delResp = NoDeleteResponse
  /\ delResp' # NoDeleteResponse
  /\ filename' = Undefined

\* C21: a request to POST /delete-audio without a filename removes
\* current_audio.mp3 from the directory synthesizeSpeech writes it to and
\* answers success = true when the file is there; when it is not there the
\* request answers success = false and no file is removed (a file of that
\* name in aud_op next to help.js left aside).
C21_DeleteRemovesCurrentAudio ==
  [][DeletesDefault =>
       IF DefaultOutputFileName \in DOMAIN audioDir
       THEN /\ delResp'.success
            /\ audioDir' = Remove(audioDir, {DefaultOutputFileName})
       ELSE DefaultOutputFileName \notin DOMAIN audOpDir =>
              /\ ~delResp'.success
              /\ audioDir' = audioDir
              /\ audOpDir' = audOpDir]_vars

\* What the handler does instead: without a filename it looks the fixed name
\* up in aud_op next to help.js and never touches public/aud_op.
DeleteDefaultLooksInAudOp ==
  [][DeletesDefault =>
       /\ audioDir' = audioDir
       /\ delResp'.success = (DefaultOutputFileName \in DOMAIN audOpDir)
       /\ audOpDir' = Remove(audOpDir, {DefaultOutputFileName})]_vars

\* The audio a successful call wrote is still in public/aud_op after the
\* request without a filename was answered "not found".
SynthesizedAudioSurvivesDelete ==
  /\ filename = Undefined
  /\ delResp.code = 200 /\ ~delResp.success
  /\ \E p \in Procs : pc[p] = "s_ret" /\ sres[p].success
  /\ DefaultOutputFileName \in DOMAIN audioDir

\* ---------------------------------------------------------------------- C22
\* getTranscriptText has asked the object store for <job>.json.
Fetched(p) == "GetObject" \in calls[p]

DocAbsent(p) == ~Exists(s3, bucketName, JsonKey(jobName[p]))

\* Parses, has the transcripts list, and every segment has its text.
WellFormed(body) ==
  /\ body.type = "transcript"
  /\ \A i \in DOMAIN body.data : body.data[i] # Undefined

\* transcribeAudio failed: no text object, no text handed on, no generation.
ExtractionFailed(p) ==
  /\ pc[p] \in {"t_thrown", "p_ret", "h_done"}
  /\ result[p].set => ~result[p].success
  /\ "PutObject" \notin calls[p]
  /\ ~Exists(s3, bucketName, TextKey(jobName[p]))
  /\ transcribedText[p] = Undefined
  /\ "generateText" \notin calls[p]

\* C22 (last part): when the result document is absent or malformed,
\* getTranscriptText fails, writes no text object, and the generation stage
\* is not entered.
C22_UnusableDocumentFails ==
  \A p \in Procs :
    Fetched(p) =>
      IF DocAbsent(p) THEN ExtractionFailed(p)
      ELSE ~WellFormed(s3[<<bucketName, JsonKey(jobName[p])>>]) => ExtractionFailed(p)

\* The part of the above that the code keeps: an absent document, one that is
\* not JSON, and one without results.transcripts make the call fail.
UnreadableDocumentFails ==
  \A p \in Procs :
    Fetched(p) =>
      IF DocAbsent(p) THEN ExtractionFailed(p)
      ELSE ~ParseOk(s3[<<bucketName, JsonKey(jobName[p])>>]) => ExtractionFailed(p)

\* C22 (first part), which holds: the text transcribeAudio returns, cut at its
\* newlines, gives the segments of the result document in their order (a
\* segment without text counting as empty), and <job>.txt holds that text.
ReturnedTextIsJoinedAndPersisted ==
  \A p \in Procs :
    pc[p] = "t_ret" =>
      LET body == s3[<<bucketName, JsonKey(jobName[p])>>] IN
      /\ SplitAt(text[p], "\n") = [i \in DOMAIN body.data |-> SegmentText(body.data[i])]
      /\ Exists(s3, bucketName, TextKey(jobName[p]))
      /\ s3[<<bucketName, TextKey(jobName[p])>>] = TextBody(text[p])

\* A run whose result document had a segment without text went on to the
\* generation service.
TextlessSegmentReachedGeneration ==
  \E p \in Procs :
    /\ "generateText" \in calls[p]
    /\ s3[<<bucketName, JsonKey(jobName[p])>>] = SegmentWithoutText
    /\ transcribedText[p] = <<"\n", "yo">>

\* ---------------------------------------------------------------------- C23
\* C23: any two invocations of transcribeAudio, concurrent ones included,
\* derive different job names.
C23_DistinctJobNames ==
  \A p, q \in Pair :
    (p # q /\ jobName[p] # Undefined /\ jobName[q] # Undefined)
      => jobName[p] # jobName[q]

\* What keeps two runs with one job name apart: the service holds the name
\* for the run that submitted it first, so a run only ever polls, reads the
\* result document of, and writes the text object of a job it submitted.
OnlyOwnJobUsed ==
  \A p \in Pair :
    ("GetTranscriptionJob" \in calls[p] \/ Fetched(p) \/ "PutObject" \in calls[p])
      => OwnJob(p)

\* A run whose job name another run had taken sent its submission under that
\* name and was refused.
RefusedUnderOthersName ==
  \E p, q \in Pair :
    /\ p # q
    /\ jobName[p] = jobName[q]
    /\ jobName[q] \in DOMAIN jobs /\ jobs[jobName[q]].by = q
    /\ "StartTranscriptionJob" \in calls[p]
    /\ result[p].set /\ result[p].error = "StartTranscriptionJob was rejected"

\* ---------------------------------------------------------------------- C24
\* `s3://${bucket}/${key}`
S3Uri(bucket, key) == <<"s3:", "/", "/", bucket, "/">> \o key

\* The bucket the handler of POST /upload-to-s3 stores the audio in.
UploadBucket == "mint-in"

\* C24: the job submitted for a request names, as its media, the bucket and
\* key under which the handler stored the audio of that request.
C24_JobNamesUploadedObject ==
  \A p \in Procs :
    OwnJob(p) =>
      /\ Exists(s3, UploadBucket, fileName[p])
      /\ jobs[jobName[p]].media = S3Uri(UploadBucket, fileName[p])

\* The key is always the uploaded one; the bucket is the module's bucketName.
JobNamesUploadedKey ==
  \A p \in Procs :
    OwnJob(p) =>
      /\ Exists(s3, UploadBucket, fileName[p])
      /\ jobs[jobName[p]].media = S3Uri(bucketName, fileName[p])

\* With transcribe.js loaded, a job was submitted whose media names a bucket
\* that holds no object at all.
JobNamesMissingObject ==
  \E p \in Procs :
    /\ OwnJob(p)
    /\ transcribeModule = "transcribe.js"
    /\ jobs[jobName[p]].media = S3Uri("mint-bucket1", fileName[p])
    /\ ~Exists(s3, "mint-bucket1", fileName[p])

\* ---------------------------------------------------------------------- C25
\* processAudioWithAI was called for the request: transcribeAudio has begun.
PipelineStarted(p) == jobName[p] # Undefined

\* The response was built from pipelineResult (help.js 140-162).
FromResultBranch(p) ==
  /\ result[p].set
  /\ resp[p].message \in
       { "Uploaded and processed successfully",
         "Upload successful but AI pipeline failed: " \o result[p].error }

SynthesisFailureIsReturned ==
  \A p \in Callers :
    /\ pc[p] \in {"idle", "s_polly", "s_put", "s_ret"}
    /\ pc[p] = "s_ret" =>
         /\ sres[p].set
         /\ sres[p].success => Exists(s3, "mint-out", s3FileName[p])
         /\ ~sres[p].success =>
              sres[p].error \in { "SynthesizeSpeech request failed",
                                  "writeFileSync failed",
                                  "PutObject request failed" }

\* ---------------------------------------------------------------------- C26
\* transcribeAudio returned the empty text to processAudioWithAI.
EmptyTranscript(p) == transcribedText[p] = <<>>

\* C26: when transcription completes with an empty transcript text, the run
\* fails: generateTextWithGranite rejects the input without a request to the
\* generation service, no synthesis request is made, the empty text object
\* <job>.txt is in the store, and processAudioWithAI returns success = false.
C26_EmptyTranscriptFailsRun ==
  \A p \in Procs :
    EmptyTranscript(p) =>
      /\ status[p] = "COMPLETED"
      /\ calls[p] \cap {"generateText", "SynthesizeSpeech", "PutAudio"} = {}
      /\ Exists(s3, bucketName, TextKey(jobName[p]))
      /\ s3[<<bucketName, TextKey(jobName[p])>>] = TextBody(<<>>)
      /\ pc[p] \in RunOver
      /\ result[p] = PipelineFailure(
                       GraniteError("Input text is required and must be a string"))

C26_Witness ==
  \E p \in Procs :
    /\ EmptyTranscript(p)
    /\ pc[p] = "h_done"
    /\ resp[p].code = 500
    /\ s3[<<bucketName, JsonKey(jobName[p])>>] = TranscriptDoc(<< <<>> >>)
====
